---------------------------- MODULE Spec2Model ----------------------------
(***************************************************************************)
(* A model of src/func.py: the OCI Functions custom authorizer that        *)
(* exchanges a Basic credential for an OCI IAM bearer token and caches the *)
(* token per credential in the module-level dict auth_cache.               *)
(*                                                                         *)
(* Every invocation of handler() is a process p of Procs.  Its position is *)
(* pc[p]; a step is the code between two accesses to what invocations      *)
(* share (auth_cache, oauth_apps, the clock, the token endpoint).          *)
(***************************************************************************)
EXTENDS Integers, Sequences, FiniteSets, TLC

(***************************************************************************)
(* Python values.  Every value is a record of one shape, so that values of *)
(* different Python types can be compared: t is the type, s the text of a  *)
(* str, n the number of an int/float.                                      *)
(***************************************************************************)
PyNone == [t |-> "none", s |-> "", n |-> 0]
PyStr(x) == [t |-> "str", s |-> x, n |-> 0]
PyNum(x) == [t |-> "num", s |-> "", n |-> x]
\* a non-dict, non-str, non-number JSON value (a list), empty or not
PyList(len) == [t |-> "list", s |-> "", n |-> len]
\* a JSON object with len members; the members are modelled where they are read
PyDict(len) == [t |-> "dict", s |-> "", n |-> len]
\* a key a dict does not hold
PyAbsent == [t |-> "absent", s |-> "", n |-> 0]

\* bool(x): None, "", 0 and [] are false
Truthy(x) ==
    CASE x.t = "none" -> FALSE
      [] x.t = "str"  -> x.s # ""
      [] x.t = "num"  -> x.n # 0
      [] x.t = "list" -> x.n # 0
      [] x.t = "dict" -> x.n # 0
      [] OTHER        -> FALSE

\* dict.get(key, default), member being the dict's value for the key or PyAbsent
Get(member, default) == IF member.t = "absent" THEN default ELSE member

\* str.startswith
StartsWith(str, prefix) ==
    /\ Len(str) >= Len(prefix)
    /\ SubSeq(str, 1, Len(prefix)) = prefix

(***************************************************************************)
(* Exceptions: the classes the code can raise, and which of them the       *)
(* clause "except ValueError" catches.                                     *)
(***************************************************************************)
ValueErrorClasses == {"ValueError", "JSONDecodeError", "UnicodeDecodeError"}
ExceptionClasses ==
    ValueErrorClasses \cup
    {"KeyError", "AttributeError", "TypeError", "RuntimeError", "RequestException"}

NoExc == [cls |-> "", msg |-> ""]
Exc(cls, msg) == [cls |-> cls, msg |-> msg]
Raised(r) == r.exc.cls # ""
Ok(v) == [exc |-> NoExc, val |-> v]
Raise(cls, msg) == [exc |-> Exc(cls, msg), val |-> PyNone]

(***************************************************************************)
(* Bounds and inputs.                                                      *)
(***************************************************************************)
\* invocations the host starts one after another in one process lifetime
MaxInvocations == 3
\* invocations the host starts when they may run concurrently
MaxRacing == 2
\* clock readings taken shortly after a reference instant
MaxFine == 2
\* cache_token's fallback validity window, in seconds
FallbackTTL == 300

Procs == {"p1", "p2"}

\* The clock shows a reading near the start, or one about a fallback window later.
Times == (1..MaxFine) \cup {FallbackTTL + i : i \in 1..MaxFine}

CredA == "Basic QWxhZGRpbjpvcGVuc2VzYW1l"
CredB == "Basic Ym9iOnNlY3JldA=="
Credentials == {CredA, CredB}

\* hashlib.sha256(auth_header.encode("utf-8")).hexdigest() of the credentials
Sha256Hex ==
    [c \in Credentials |->
        IF c = CredA
        THEN "01c185531ab9c6e36dd1793b5bac688be320519636714fa7859e351a931a03a9"
        ELSE "a8d803ac82dba9d750cc3482114ed9533335b23afe77c4f2cf27e0b9c78c100e"]

\* ctx.Config(): complete mappings with different values, and incomplete ones
ConfigOne == [TOKEN_URL |-> "https://idcs-1.example/oauth2/v1/token", SCOPE |-> "scope-1"]
ConfigTwo == [TOKEN_URL |-> "https://idcs-2.example/oauth2/v1/token", SCOPE |-> "scope-2"]
ConfigNoUrl == [SCOPE |-> "scope-1"]
ConfigNoScope == [TOKEN_URL |-> "https://idcs-1.example/oauth2/v1/token"]
Configs == {ConfigOne, ConfigTwo, ConfigNoUrl, ConfigNoScope}
NoConfig == [NONE |-> "no config read yet"]


(***************************************************************************)
(* Request payloads: what the host hands to handler() as data.             *)
(*   raw = "none"        data is None                                      *)
(*   raw = "unparseable" the bytes are not JSON                            *)
(*   raw = "json"        the bytes are JSON text of the value `top`; when  *)
(*                       top is a dict its members token, data and         *)
(*                       Authorization are the fields of the same names,   *)
(*                       and dataAuth is data's member Authorization.      *)
(***************************************************************************)
Payload(raw, top, token, data, dataAuth, auth) ==
    [raw |-> raw, top |-> top, token |-> token, data |-> data,
     dataAuth |-> dataAuth, Authorization |-> auth]
Object(token, data, dataAuth, auth) ==
    Payload("json", PyDict(1), token, data, dataAuth, auth)

NoPayload == Payload("", PyNone, PyAbsent, PyAbsent, PyAbsent, PyAbsent)
DataIsNone == Payload("none", PyNone, PyAbsent, PyAbsent, PyAbsent, PyAbsent)
NotJson == Payload("unparseable", PyNone, PyAbsent, PyAbsent, PyAbsent, PyAbsent)
JsonList == Payload("json", PyList(1), PyAbsent, PyAbsent, PyAbsent, PyAbsent)
EmptyObject == Payload("json", PyDict(0), PyAbsent, PyAbsent, PyAbsent, PyAbsent)

Payloads ==
    { DataIsNone, NotJson, JsonList, EmptyObject,
      \* {"token": "Basic QWxh..."}
      Object(PyStr(CredA), PyAbsent, PyAbsent, PyAbsent),
      \* {"data": {"Authorization": "Basic QWxh..."}, "Authorization": "Bearer xyz"}
      Object(PyAbsent, PyDict(1), PyStr(CredA), PyStr("Bearer xyz")),
      \* {"token": "", "Authorization": "Basic Ym9i..."}
      Object(PyStr(""), PyAbsent, PyAbsent, PyStr(CredB)),
      \* {"token": "Bearer xyz", "Authorization": "Basic Ym9i..."}
      Object(PyStr("Bearer xyz"), PyAbsent, PyAbsent, PyStr(CredB)),
      \* {"token": 123}
      Object(PyNum(123), PyAbsent, PyAbsent, PyAbsent),
      \* {"data": null, "Authorization": "Basic QWxh..."}
      Object(PyAbsent, PyNone, PyAbsent, PyStr(CredA)),
      \* {"Authorization": 0}
      Object(PyAbsent, PyAbsent, PyAbsent, PyNum(0)) }

(***************************************************************************)
(* Access tokens the token endpoint issues, per credential, and what       *)
(* jwt.decode(token, options={"verify_signature": False}) makes of each.   *)
(* With verify_signature off PyJWT validates no claim, so exp is whatever  *)
(* JSON value the token carries.                                           *)
(***************************************************************************)
TokenVariants == {"opaque", "noexp", "exp0", "expSoon", "expLate", "expText"}
TokenText(cred, variant) ==
    (IF cred = CredA THEN "tokA." ELSE "tokB.") \o variant
TokensFor(cred) == {TokenText(cred, v) : v \in TokenVariants}
AccessTokens == UNION {TokensFor(c) : c \in Credentials}

\* the exp claim of a token that parses as a JWT
ExpClaim(variant) ==
    CASE variant = "noexp"   -> PyAbsent
      [] variant = "exp0"    -> PyNum(0)
      [] variant = "expSoon" -> PyNum(2)
      [] variant = "expLate" -> PyNum(FallbackTTL + 2)
      [] variant = "expText" -> PyStr("never")
      [] OTHER               -> PyAbsent

VariantOf(token) ==
    CHOOSE v \in TokenVariants : \E c \in Credentials : token = TokenText(c, v)

\* jwt.decode: DecodeError for a string that is no JWT, else the claims' exp
JwtDecode(token) ==
    IF token.t # "str" \/ token.s \notin AccessTokens
       \/ VariantOf(token.s) = "opaque"
    THEN Raise("DecodeError", "Not enough segments")
    ELSE Ok(ExpClaim(VariantOf(token.s)))

(***************************************************************************)
(* What requests.post(...) gives back.                                     *)
(*   raises       the call itself fails (timeout, connection error)        *)
(*   status_code  the HTTP status                                          *)
(*   json         "object", "nonobject" (a JSON list) or "invalid"         *)
(*   access_token the object's member access_token, or PyAbsent            *)
(***************************************************************************)
Reply(raises, status, json, token, text) ==
    [raises |-> raises, status_code |-> status, json |-> json,
     access_token |-> token, text |-> text]
NoReply == Reply(FALSE, 0, "", PyAbsent, "")

FailedReplies ==
    { Reply(TRUE, 0, "", PyAbsent, "timed out"),
      Reply(FALSE, 401, "object", PyAbsent, "invalid_client"),
      Reply(FALSE, 200, "invalid", PyAbsent, "<html>"),
      Reply(FALSE, 200, "nonobject", PyAbsent, "[]"),
      Reply(FALSE, 200, "object", PyAbsent, "{}"),
      Reply(FALSE, 200, "object", PyStr(""), "{access_token: ''}") }
IssuedReplies(cred) ==
    {Reply(FALSE, 200, "object", PyStr(tok), "{access_token: ...}") : tok \in TokensFor(cred)}
\* the answers the endpoint may give, by the credential of the request
Replies == [cred \in Credentials |-> FailedReplies \cup IssuedReplies(cred)]

(***************************************************************************)
(* The functions of func.py.                                               *)
(***************************************************************************)

\* (mutant) the length test off by one: len(oauth_apps) <= 1
NeedsInit_OffByOne(apps) == Cardinality(DOMAIN apps) <= 1

\* init_context, line 19: whether the configuration is still to be loaded
NeedsInit(apps) == Cardinality(DOMAIN apps) < 1

\* (mutant) the dict is stored first and filled key by key, so that a
\* missing SCOPE leaves 'iam' behind with TOKEN_URL alone
init_context_KeyByKey(apps, context) ==
    IF "TOKEN_URL" \notin DOMAIN context
    THEN [exc |-> Exc("KeyError", "'TOKEN_URL'"), apps |-> apps]
    ELSE IF "SCOPE" \notin DOMAIN context
    THEN [exc |-> Exc("KeyError", "'SCOPE'"),
          apps |-> [k \in DOMAIN apps \cup {"iam"} |->
                       IF k = "iam" THEN [TOKEN_URL |-> context.TOKEN_URL] ELSE apps[k]]]
    ELSE [exc |-> NoExc,
          apps |-> [k \in DOMAIN apps \cup {"iam"} |->
                       IF k = "iam"
                       THEN [TOKEN_URL |-> context.TOKEN_URL, SCOPE |-> context.SCOPE]
                       ELSE apps[k]]]

\* init_context, lines 22-25: the dict literal is built first (a missing key
\* raises KeyError before anything is stored), then stored under 'iam'
init_context(apps, context) ==
    IF "TOKEN_URL" \notin DOMAIN context
    THEN [exc |-> Exc("KeyError", "'TOKEN_URL'"), apps |-> apps]
    ELSE IF "SCOPE" \notin DOMAIN context
    THEN [exc |-> Exc("KeyError", "'SCOPE'"), apps |-> apps]
    ELSE [exc |-> NoExc,
          apps |-> [k \in DOMAIN apps \cup {"iam"} |->
                       IF k = "iam"
                       THEN [TOKEN_URL |-> context.TOKEN_URL, SCOPE |-> context.SCOPE]
                       ELSE apps[k]]]

\* json.loads(data.getvalue())
json_loads(data) ==
    CASE data.raw = "none" ->
           Raise("AttributeError", "'NoneType' object has no attribute 'getvalue'")
      [] data.raw = "unparseable" ->
           Raise("JSONDecodeError", "Expecting value: line 1 column 1 (char 0)")
      [] OTHER -> Ok(data.top)

\* body.get("token") or body.get("data", {}).get("Authorization") or body.get("Authorization")
FirstMatch(body) ==
    IF body.top.t # "dict"
    THEN Raise("AttributeError", "object has no attribute 'get'")
    ELSE IF Truthy(Get(body.token, PyNone))
    THEN Ok(body.token)
    ELSE IF Get(body.data, PyDict(0)).t # "dict"
    THEN Raise("AttributeError", "object has no attribute 'get'")
    ELSE IF Truthy(Get(body.dataAuth, PyNone))
    THEN Ok(body.dataAuth)
    ELSE Ok(Get(body.Authorization, PyNone))

BasicPrefix == "Basic "

extract_auth_header(body) ==
    LET m == FirstMatch(body)
    IN  IF Raised(m) THEN m
        ELSE IF ~Truthy(m.val)
        THEN Raise("ValueError", "Missing or invalid Authorization header")
        ELSE IF m.val.t # "str"
        THEN Raise("AttributeError", "object has no attribute 'startswith'")
        ELSE IF ~StartsWith(m.val.s, BasicPrefix)
        THEN Raise("ValueError", "Missing or invalid Authorization header")
        ELSE m

\* (mutant) the digest taken of the scheme word only, the same for every header
get_cache_key_SchemeOnly(auth_header) == Sha256Hex[CredA]

get_cache_key(auth_header) == Sha256Hex[auth_header]

\* (mutant) the expiry test turned round: exp < time.time()
get_cached_token_Inverted(cache, cache_key, t) ==
    IF cache_key \notin DOMAIN cache
    THEN Ok(PyNone)
    ELSE LET token == cache[cache_key].token
             exp == cache[cache_key].exp
         IN  IF ~Truthy(exp) THEN Ok(PyNone)
             ELSE IF exp.t # "num"
             THEN Raise("TypeError", "'<' not supported between instances of 'float' and 'str'")
             ELSE IF exp.n < t THEN Ok(token)
             ELSE Ok(PyNone)

\* (mutant) the expiry test made inclusive: time.time() <= exp
get_cached_token_Inclusive(cache, cache_key, t) ==
    IF cache_key \notin DOMAIN cache
    THEN Ok(PyNone)
    ELSE LET token == cache[cache_key].token
             exp == cache[cache_key].exp
         IN  IF ~Truthy(exp) THEN Ok(PyNone)
             ELSE IF exp.t # "num"
             THEN Raise("TypeError", "'<' not supported between instances of 'float' and 'str'")
             ELSE IF t <= exp.n THEN Ok(token)
             ELSE Ok(PyNone)

\* get_cached_token: the token, None, or the TypeError of comparing the clock
\* with an expiry that is no number
get_cached_token(cache, cache_key, t) ==
    IF cache_key \notin DOMAIN cache
    THEN Ok(PyNone)
    ELSE LET token == cache[cache_key].token
             exp == cache[cache_key].exp
         IN  IF ~Truthy(exp) THEN Ok(PyNone)
             ELSE IF exp.t # "num"
             THEN Raise("TypeError", "'<' not supported between instances of 'float' and 'str'")
             ELSE IF t < exp.n THEN Ok(token)
             ELSE Ok(PyNone)

decode_jwt_expiry(token) ==
    LET decoded == JwtDecode(token)
    IN  IF Raised(decoded) THEN PyNone ELSE Get(decoded.val, PyNone)

\* fetch_new_token, lines 91-99, given what requests.post returned
fetch_new_token(reply) ==
    IF reply.raises
    THEN Raise("RequestException", reply.text)
    ELSE IF reply.status_code # 200
    THEN Raise("RuntimeError", "Token request failed: " \o reply.text)
    ELSE IF reply.json = "invalid"
    THEN Raise("JSONDecodeError", "Expecting value: line 1 column 1 (char 0)")
    ELSE IF reply.json # "object"
    THEN Raise("AttributeError", "object has no attribute 'get'")
    ELSE IF ~Truthy(Get(reply.access_token, PyNone))
    THEN Raise("ValueError", "No access token returned from OCI IAM")
    ELSE Ok(reply.access_token)

\* (mutant) an entry that expires later than the new token is kept
cache_token_KeepsLater(cache, cache_key, token, exp, t) ==
    LET expiry == IF Truthy(exp) THEN exp ELSE PyNum(t + FallbackTTL)
        keep == /\ cache_key \in DOMAIN cache
                /\ cache[cache_key].exp.t = "num" /\ expiry.t = "num"
                /\ cache[cache_key].exp.n > expiry.n
    IN  [k \in DOMAIN cache \cup {cache_key} |->
            IF k = cache_key /\ ~keep THEN [token |-> token, exp |-> expiry] ELSE cache[k]]

\* (mutant) auth_cache = {cache_key: ...}: the dictionary is rebound, not updated
cache_token_Rebound(cache, cache_key, token, exp, t) ==
    LET expiry == IF Truthy(exp) THEN exp ELSE PyNum(t + FallbackTTL)
    IN  [k \in {cache_key} |-> [token |-> token, exp |-> expiry]]

\* (mutant) no fallback: the expiry is stored as decode_jwt_expiry gave it
cache_token_NoFallback(cache, cache_key, token, exp, t) ==
    [k \in DOMAIN cache \cup {cache_key} |->
        IF k = cache_key THEN [token |-> token, exp |-> exp] ELSE cache[k]]

\* (mutant) the insert also prunes: entries whose expiry has passed are dropped
cache_token_Pruning(cache, cache_key, token, exp, t) ==
    LET expiry == IF Truthy(exp) THEN exp ELSE PyNum(t + FallbackTTL)
        live == {k \in DOMAIN cache : cache[k].exp.t = "num" /\ t < cache[k].exp.n}
    IN  [k \in live \cup {cache_key} |->
            IF k = cache_key THEN [token |-> token, exp |-> expiry] ELSE cache[k]]

\* (mutant) auth_cache.setdefault(cache_key, ...): an entry already there stays
cache_token_SetDefault(cache, cache_key, token, exp, t) ==
    LET expiry == IF Truthy(exp) THEN exp ELSE PyNum(t + FallbackTTL)
    IN  [k \in DOMAIN cache \cup {cache_key} |->
            IF k \in DOMAIN cache THEN cache[k] ELSE [token |-> token, exp |-> expiry]]

cache_token(cache, cache_key, token, exp, t) ==
    LET expiry == IF Truthy(exp) THEN exp ELSE PyNum(t + FallbackTTL)
    IN  [k \in DOMAIN cache \cup {cache_key} |->
            IF k = cache_key THEN [token |-> token, exp |-> expiry] ELSE cache[k]]

\* f"{value}"
Format(value) ==
    CASE value.t = "str"  -> value.s
      [] value.t = "none" -> "None"
      [] OTHER            -> "?"

\* the dicts handler passes to build_response
TokenResponse(scope, token) ==
    [keys |-> {"active", "scope", "context"}, active |-> TRUE, scope |-> scope,
     token_response |-> "Bearer " \o Format(token), error |-> ""]
ErrorBody(msg) ==
    [keys |-> {"error"}, active |-> FALSE, scope |-> "",
     token_response |-> "", error |-> msg]
NoBody == [keys |-> {}, active |-> FALSE, scope |-> "", token_response |-> "", error |-> ""]

build_response(data, status) ==
    [response_data |-> data, status_code |-> status,
     content_type |-> "application/json"]
NoResponse == build_response(NoBody, 0)

\* (mutant) the second clause names the classes it expects instead of Exception
Catches_Named(exc) ==
    IF exc.cls \in ValueErrorClasses THEN "ValueError"
    ELSE IF exc.cls \in {"RuntimeError", "KeyError"} THEN "Exception"
    ELSE "none"

\* handler, lines 175-181: which except clause takes the exception
Catches(exc) ==
    IF exc.cls \in ValueErrorClasses THEN "ValueError"
    ELSE IF exc.cls \in ExceptionClasses THEN "Exception"
    ELSE "none"

ExceptResponse(exc) ==
    IF Catches(exc) = "ValueError" THEN build_response(ErrorBody(exc.msg), 400)
    ELSE build_response(ErrorBody(exc.msg), 500)

(***************************************************************************)
(* State.                                                                  *)
(***************************************************************************)
VARIABLES
    auth_cache,     \* the module's dict: cache key -> [token, exp]
    oauth_apps,     \* the module's dict: empty, or 'iam' -> [TOKEN_URL, SCOPE]
    now,            \* time.time()
    started,        \* invocations the host has started
    pc,             \* where each invocation is in handler
    context,        \* dict(ctx.Config()) of the invocation
    body,           \* the parsed payload
    auth_header, cache_key, cached_token, scope, new_token,
    resp,           \* what handler returned
    payload_kind,   \* history: what data was
    reply,          \* history: what the token endpoint answered
    seen,           \* history: what get_cached_token read, and when
    fetches,        \* history: calls of fetch_new_token by the invocation
    writes          \* history: stores into auth_cache by the invocation

locals == <<context, body, auth_header, cache_key, cached_token, scope, new_token>>
history == <<payload_kind, reply, seen, fetches, writes>>
vars == <<auth_cache, oauth_apps, now, started, pc, locals, resp, history>>

\* get_cached_token's reads: auth_cache.get(cache_key) and time.time()
NoEntry == [token |-> PyAbsent, exp |-> PyAbsent]
Seen(cache, key, t) ==
    [looked |-> TRUE, entry |-> IF key \in DOMAIN cache THEN cache[key] ELSE NoEntry, at |-> t]
NotSeen == [looked |-> FALSE, entry |-> NoEntry, at |-> 0]

Init ==
    /\ auth_cache = << >>
    /\ oauth_apps = << >>
    /\ now = 1
    /\ started = 0
    /\ pc = [p \in Procs |-> "idle"]
    /\ context = [p \in Procs |-> NoConfig]
    /\ body = [p \in Procs |-> NoPayload]
    /\ auth_header = [p \in Procs |-> ""]
    /\ cache_key = [p \in Procs |-> ""]
    /\ cached_token = [p \in Procs |-> PyNone]
    /\ scope = [p \in Procs |-> ""]
    /\ new_token = [p \in Procs |-> PyNone]
    /\ resp = [p \in Procs |-> NoResponse]
    /\ payload_kind = [p \in Procs |-> ""]
    /\ reply = [p \in Procs |-> NoReply]
    /\ seen = [p \in Procs |-> NotSeen]
    /\ fetches = [p \in Procs |-> 0]
    /\ writes = [p \in Procs |-> 0]

\* the except clauses: the invocation returns the error response, or the
\* exception leaves handler
Fail(p, exc) ==
    IF Catches(exc) = "none"
    THEN /\ pc' = [pc EXCEPT ![p] = "crashed"]
         /\ UNCHANGED resp
    ELSE /\ pc' = [pc EXCEPT ![p] = "done"]
         /\ resp' = [resp EXCEPT ![p] = ExceptResponse(exc)]

Return(p, response) ==
    /\ pc' = [pc EXCEPT ![p] = "done"]
    /\ resp' = [resp EXCEPT ![p] = response]

\* The host calls handler(ctx, data), at most limit times; line 129 reads
\* ctx.Config(), one of configs.
Start(p, configs, limit) ==
    /\ pc[p] \in {"idle", "done", "crashed"}
    /\ started < limit
    /\ started' = started + 1
    /\ pc' = [pc EXCEPT ![p] = "init_context"]
    /\ \E c \in configs : context' = [context EXCEPT ![p] = c]
    /\ body' = [body EXCEPT ![p] = NoPayload]
    /\ auth_header' = [auth_header EXCEPT ![p] = ""]
    /\ cache_key' = [cache_key EXCEPT ![p] = ""]
    /\ cached_token' = [cached_token EXCEPT ![p] = PyNone]
    /\ scope' = [scope EXCEPT ![p] = ""]
    /\ new_token' = [new_token EXCEPT ![p] = PyNone]
    /\ resp' = [resp EXCEPT ![p] = NoResponse]
    /\ payload_kind' = [payload_kind EXCEPT ![p] = ""]
    /\ reply' = [reply EXCEPT ![p] = NoReply]
    /\ seen' = [seen EXCEPT ![p] = NotSeen]
    /\ fetches' = [fetches EXCEPT ![p] = 0]
    /\ writes' = [writes EXCEPT ![p] = 0]
    /\ UNCHANGED <<auth_cache, oauth_apps, now>>

\* init_context, line 19
InitCheck(p) ==
    /\ pc[p] = "init_context"
    /\ IF NeedsInit(oauth_apps)
       THEN pc' = [pc EXCEPT ![p] = "init_store"]
       ELSE pc' = [pc EXCEPT ![p] = "loads"]
    /\ UNCHANGED <<auth_cache, oauth_apps, now, started, locals, resp, history>>

\* init_context, lines 20-28
InitStore(p) ==
    /\ pc[p] = "init_store"
    /\ LET r == init_context(oauth_apps, context[p])
       IN  /\ oauth_apps' = r.apps
           /\ IF r.exc # NoExc
              THEN Fail(p, r.exc)
              ELSE /\ pc' = [pc EXCEPT ![p] = "loads"]
                   /\ UNCHANGED resp
    /\ UNCHANGED <<auth_cache, now, started, locals, history>>

PayloadKind(data) ==
    IF data.raw # "json" THEN data.raw
    ELSE IF data.top.t = "dict" THEN "object" ELSE "nonobject"

\* handler, line 131, data being one of payloads; the dict made of
\* ctx.Config() is gone by now
Loads(p, payloads) ==
    /\ pc[p] = "loads"
    /\ context' = [context EXCEPT ![p] = NoConfig]
    /\ \E data \in payloads :
          /\ payload_kind' = [payload_kind EXCEPT ![p] = PayloadKind(data)]
          /\ LET r == json_loads(data)
             IN  IF Raised(r)
                 THEN /\ Fail(p, r.exc)
                      /\ UNCHANGED body
                 ELSE /\ pc' = [pc EXCEPT ![p] = "extract"]
                      /\ body' = [body EXCEPT ![p] = data]
                      /\ UNCHANGED resp
    /\ UNCHANGED <<auth_cache, oauth_apps, now, started, auth_header,
                   cache_key, cached_token, scope, new_token, reply, seen,
                   fetches, writes>>

\* handler, lines 135-136
Extract(p) ==
    /\ pc[p] = "extract"
    /\ LET r == extract_auth_header(body[p])
       IN  IF Raised(r)
           THEN /\ Fail(p, r.exc)
                /\ UNCHANGED <<auth_header, cache_key>>
           ELSE /\ pc' = [pc EXCEPT ![p] = "lookup"]
                /\ auth_header' = [auth_header EXCEPT ![p] = r.val.s]
                /\ cache_key' = [cache_key EXCEPT ![p] = get_cache_key(r.val.s)]
                /\ UNCHANGED resp
    /\ body' = [body EXCEPT ![p] = NoPayload]
    /\ UNCHANGED <<auth_cache, oauth_apps, now, started, context,
                   cached_token, scope, new_token, history>>

\* handler, line 140
Lookup(p) ==
    /\ pc[p] = "lookup"
    /\ LET r == get_cached_token(auth_cache, cache_key[p], now)
       IN  IF Raised(r)
           THEN /\ Fail(p, r.exc)
                /\ UNCHANGED cached_token
           ELSE /\ pc' = [pc EXCEPT ![p] = "scope"]
                /\ cached_token' = [cached_token EXCEPT ![p] = r.val]
                /\ UNCHANGED resp
    /\ seen' = [seen EXCEPT ![p] = Seen(auth_cache, cache_key[p], now)]
    /\ UNCHANGED <<auth_cache, oauth_apps, now, started, context, body,
                   auth_header, cache_key, scope, new_token,
                   payload_kind, reply, fetches, writes>>

\* oauth_apps['iam'][name]
AppSetting(apps, name) ==
    IF "iam" \notin DOMAIN apps THEN Raise("KeyError", "'iam'")
    ELSE IF name \notin DOMAIN apps["iam"] THEN Raise("KeyError", name)
    ELSE Ok(PyStr(apps["iam"][name]))

\* handler, lines 141-152
ReadScope(p) ==
    /\ pc[p] = "scope"
    /\ LET s == AppSetting(oauth_apps, "SCOPE")
       IN  IF Raised(s)
           THEN /\ Fail(p, s.exc)
                /\ UNCHANGED scope
           ELSE /\ scope' = [scope EXCEPT ![p] = s.val.s]
                /\ IF Truthy(cached_token[p])
                   THEN Return(p, build_response(TokenResponse(s.val.s, cached_token[p]), 200))
                   ELSE /\ pc' = [pc EXCEPT ![p] = "fetch"]
                        /\ UNCHANGED resp
    /\ UNCHANGED <<auth_cache, oauth_apps, now, started, context, body,
                   auth_header, cache_key, cached_token, new_token, history>>

\* (mutant) a failed call is tried again
FetchRetried(p, exc) ==
    /\ pc' = [pc EXCEPT ![p] = "fetch"]
    /\ UNCHANGED resp

\* handler, line 156: an exception of fetch_new_token is not handled where
\* the call is made; it goes to handler's except clauses
FetchFailed(p, exc) == Fail(p, exc)

\* handler, lines 155-156: the one call of the token endpoint.  The request
\* carries auth_header as its Authorization, and the endpoint gives one of
\* its answers to that credential.
Fetch(p, answers) ==
    /\ pc[p] = "fetch"
    /\ LET url == AppSetting(oauth_apps, "TOKEN_URL")
       IN  IF Raised(url)
           THEN /\ Fail(p, url.exc)
                /\ UNCHANGED <<new_token, reply, fetches>>
           ELSE \E answer \in answers[auth_header[p]] :
                   /\ reply' = [reply EXCEPT ![p] = answer]
                   /\ fetches' = [fetches EXCEPT ![p] = @ + 1]
                   /\ LET r == fetch_new_token(answer)
                      IN  IF Raised(r)
                          THEN /\ FetchFailed(p, r.exc)
                               /\ UNCHANGED new_token
                          ELSE /\ pc' = [pc EXCEPT ![p] = "cache"]
                               /\ new_token' = [new_token EXCEPT ![p] = r.val]
                               /\ UNCHANGED resp
    /\ UNCHANGED <<auth_cache, oauth_apps, now, started, context, body,
                   auth_header, cache_key, cached_token, scope,
                   payload_kind, seen, writes>>

\* handler, lines 160-173
Cache(p) ==
    /\ pc[p] = "cache"
    /\ LET exp == decode_jwt_expiry(new_token[p])
       IN  auth_cache' = cache_token(auth_cache, cache_key[p], new_token[p], exp, now)
    /\ writes' = [writes EXCEPT ![p] = @ + 1]
    /\ Return(p, build_response(TokenResponse(scope[p], new_token[p]), 200))
    /\ UNCHANGED <<oauth_apps, now, started, locals, payload_kind, reply, seen, fetches>>

\* the clock moves on
Tick ==
    /\ \E t \in Times : t > now /\ now' = t
    /\ UNCHANGED <<auth_cache, oauth_apps, started, pc, locals, resp, history>>

\* one step of an invocation that is under way
Step(p, payloads, answers) ==
    \/ InitCheck(p)
    \/ InitStore(p)
    \/ Loads(p, payloads)
    \/ Extract(p)
    \/ Lookup(p)
    \/ ReadScope(p)
    \/ Fetch(p, answers)
    \/ Cache(p)

\* Invocations one after another: the host starts the next one when the
\* previous one has returned.
Main == "p1"

Next ==
    \/ Start(Main, Configs, MaxInvocations)
    \/ Step(Main, Payloads, Replies)
    \/ Tick

Spec == Init /\ [][Next]_vars

\* Invocations of one process running concurrently, on threads of the host.
\* What races is the configuration and the cache, so the inputs are the
\* complete configurations, payloads that carry a credential (and one that
\* does not), and answers that issue a token (and one that does not).
RaceConfigs == {ConfigOne, ConfigTwo}
RacePayloads ==
    { EmptyObject,
      Object(PyStr(CredA), PyAbsent, PyAbsent, PyAbsent),
      Object(PyStr(""), PyAbsent, PyAbsent, PyStr(CredB)) }
RaceReplies ==
    [cred \in Credentials |->
        { Reply(FALSE, 401, "object", PyAbsent, "invalid_client") } \cup
        { Reply(FALSE, 200, "object", PyStr(TokenText(cred, v)), "{access_token: ...}") :
             v \in {"noexp", "expSoon", "expLate"} }]

ConcNext ==
    \/ \E p \in Procs : Start(p, RaceConfigs, MaxRacing)
    \/ \E p \in Procs : Step(p, RacePayloads, RaceReplies)
    \/ Tick

ConcSpec == Init /\ [][ConcNext]_vars

(***************************************************************************)
(* What the claims speak of, stated without the code's own tests.          *)
(***************************************************************************)
Keys == {Sha256Hex[c] : c \in Credentials}

\* an entry is valid at time t iff t is strictly before its expiry
ValidEntry(entry, t) ==
    /\ entry.token.t # "absent"
    /\ entry.exp.t = "num"
    /\ t < entry.exp.n

\* the lookup found a valid entry
HitAtLookup(p) == seen[p].looked /\ ValidEntry(seen[p].entry, seen[p].at)

\* the lookup found no entry, or one whose expiry has passed
MissAtLookup(p) ==
    /\ seen[p].looked
    /\ \/ seen[p].entry.token.t = "absent"
       \/ seen[p].entry.exp.t = "num" /\ seen[p].at >= seen[p].entry.exp.n

\* the token endpoint answered 200 with an access token
Issued(r) ==
    /\ ~r.raises
    /\ r.status_code = 200
    /\ r.json = "object"
    /\ r.access_token.t = "str" /\ r.access_token.s # ""

Status(p) == resp[p].status_code
IsError(p, status) ==
    /\ pc[p] = "done"
    /\ resp[p].status_code = status
    /\ resp[p].response_data.keys = {"error"}
IsSuccess(p, token) ==
    /\ pc[p] = "done"
    /\ resp[p].status_code = 200
    /\ resp[p].response_data.keys = {"active", "scope", "context"}
    /\ resp[p].response_data.active
    /\ resp[p].response_data.token_response = "Bearer " \o token

(***************************************************************************)
(* C1.  Cache hit skips the exchange: an invocation whose lookup finds an   *)
(* entry for its key with now < exp calls fetch_new_token not at all, does *)
(* not store into the cache, and responds 200 with "Bearer " + the cached  *)
(* token.                                                                  *)
(***************************************************************************)
C1_CacheHitSkipsExchange ==
    \A p \in Procs :
        HitAtLookup(p) =>
            /\ fetches[p] = 0
            /\ writes[p] = 0
            /\ pc[p] \in {"scope", "done"}
            /\ pc[p] = "done" => IsSuccess(p, seen[p].entry.token.s)

C1_Witness ==
    \E p \in Procs :
        /\ HitAtLookup(p)
        /\ pc[p] = "done"
        /\ Status(p) = 200
        /\ started >= 2

(***************************************************************************)
(* C2.  Cache miss fetches exactly once and populates the cache: with a    *)
(* well-formed Basic credential, the configuration loaded and no valid     *)
(* entry for the key (none, or an expired one), the invocation calls       *)
(* fetch_new_token exactly once; when the endpoint answers 200 with token  *)
(* T the response is 200, active, "Bearer " + T, and the entry for the key *)
(* then holds T.                                                           *)
(***************************************************************************)
C2_CacheMissFetchesOnce ==
    \A p \in Procs :
        (/\ pc[p] = "done"
         /\ StartsWith(auth_header[p], BasicPrefix)
         /\ "iam" \in DOMAIN oauth_apps
         /\ MissAtLookup(p))
        => /\ fetches[p] = 1
           /\ Issued(reply[p]) =>
                 /\ IsSuccess(p, reply[p].access_token.s)
                 /\ cache_key[p] \in DOMAIN auth_cache
                 /\ auth_cache[cache_key[p]].token = reply[p].access_token

C2_Witness ==
    \E p \in Procs :
        /\ pc[p] = "done"
        /\ MissAtLookup(p)
        /\ seen[p].entry.token.t = "str"
        /\ Issued(reply[p])
        /\ Status(p) = 200
        /\ auth_cache[cache_key[p]].token # seen[p].entry.token

(***************************************************************************)
(* C3.  Validation failures are 400: a parsed payload in which none of     *)
(* token, data.Authorization, Authorization yields a credential, or whose  *)
(* matched value does not begin with "Basic " whatever its type, gets 400  *)
(* with {"error": ...} and no exchange.                                    *)
(***************************************************************************)
\* the first non-empty value among the three places, or None
Matched(payload) ==
    LET first == Get(payload.token, PyNone)
        second == IF payload.data.t = "dict" THEN Get(payload.dataAuth, PyNone) ELSE PyNone
        third == Get(payload.Authorization, PyNone)
    IN  IF Truthy(first) THEN first
        ELSE IF Truthy(second) THEN second
        ELSE IF Truthy(third) THEN third
        ELSE PyNone

LacksBasicCredential(payload) ==
    /\ payload.top.t = "dict"
    /\ LET m == Matched(payload)
       IN  \/ ~Truthy(m)
           \/ m.t # "str"
           \/ ~StartsWith(m.s, "Basic ")

\* C3: leaving extraction with a payload that lacks a Basic credential means
\* returning 400 with an error body, no exchange made
C3_ValidationFailuresAre400 ==
    [][\A p \in Procs :
          (pc[p] = "extract" /\ pc'[p] # "extract" /\ LacksBasicCredential(body[p]))
          => /\ pc'[p] = "done"
             /\ resp'[p].status_code = 400
             /\ resp'[p].response_data.keys = {"error"}
             /\ fetches'[p] = 0]_vars

(***************************************************************************)
(* C4.  Upstream failures are 500: when the exchange fails because the     *)
(* status is not 200, or the body is malformed or has no access_token, the *)
(* invocation responds 500 with {"error": ...}.                            *)
(***************************************************************************)
ExchangeFailed(r) ==
    /\ ~r.raises
    /\ \/ r.status_code # 200
       \/ r.json # "object"
       \/ r.access_token.t = "absent"

\* C4: an invocation whose exchange failed has returned 500 with an error body
C4_UpstreamFailuresAre500 ==
    \A p \in Procs :
        (pc[p] = "done" /\ fetches[p] >= 1 /\ ExchangeFailed(reply[p]))
        => IsError(p, 500)

(***************************************************************************)
(* C5.  A malformed request payload is a 500, not a 400: a body that is    *)
(* not JSON, or is JSON but no object, gets 500 with {"error": ...}; only  *)
(* a failed credential extraction gets 400.                                *)
(***************************************************************************)
ExtractionFailed(p) ==
    /\ payload_kind[p] = "object"
    /\ auth_header[p] = ""
    /\ ~seen[p].looked

\* C5: a body that is not JSON or not an object ends in 500, and a 400 comes
\* from a failed credential extraction only
C5_MalformedPayloadIs500 ==
    \A p \in Procs :
        pc[p] = "done" =>
            /\ payload_kind[p] \in {"unparseable", "nonobject"} => IsError(p, 500)
            /\ Status(p) = 400 => ExtractionFailed(p)

(***************************************************************************)
(* C6.  Configuration failure is fatal and leaves no partial state: when   *)
(* the mapping lacks TOKEN_URL or SCOPE and init_context has to load it,   *)
(* the invocation responds 500, oauth_apps is left as it was (empty), and  *)
(* there is no lookup, exchange or cache store; an invocation with a       *)
(* complete mapping loads the configuration from it.                       *)
(***************************************************************************)
Incomplete(c) == "TOKEN_URL" \notin DOMAIN c \/ "SCOPE" \notin DOMAIN c

\* C6: the store step of init_context fails with 500 and changes nothing when
\* the mapping is incomplete, and stores the mapping when it is complete
C6_ConfigFailureLeavesNoState ==
    [][\A p \in Procs :
          (pc[p] = "init_store" /\ pc'[p] # "init_store")
          => IF Incomplete(context[p])
             THEN /\ pc'[p] = "done"
                  /\ resp'[p].status_code = 500
                  /\ resp'[p].response_data.keys = {"error"}
                  /\ oauth_apps' = oauth_apps
                  /\ auth_cache' = auth_cache
                  /\ ~seen'[p].looked /\ fetches'[p] = 0 /\ writes'[p] = 0
             ELSE /\ pc'[p] = "loads"
                  /\ DOMAIN oauth_apps' = {"iam"}
                  /\ oauth_apps'["iam"] = context[p]]_vars

C6_Witness ==
    \E p \in Procs :
        /\ IsError(p, 500)
        /\ resp[p].response_data.error \in {"'TOKEN_URL'", "'SCOPE'"}
        /\ oauth_apps = << >>
        /\ started >= 2

(***************************************************************************)
(* C7.  Every invocation ends in exactly one structured response: handler  *)
(* never lets an exception out, always has a next step until it returns,   *)
(* and what it returns has status 200, 400 or 500 and a JSON body of the   *)
(* matching shape.                                                         *)
(***************************************************************************)
Structured(r) ==
    /\ r.content_type = "application/json"
    /\ \/ /\ r.status_code = 200
          /\ r.response_data.keys = {"active", "scope", "context"}
       \/ /\ r.status_code \in {400, 500}
          /\ r.response_data.keys = {"error"}

\* C7: no invocation crashes or gets stuck, and a returned response is structured
C7_AlwaysOneStructuredResponse ==
    \A p \in Procs :
        /\ pc[p] # "crashed"
        /\ pc[p] = "done" => Structured(resp[p])
        /\ pc[p] # "done" => resp[p] = NoResponse
        /\ pc[p] \notin {"idle", "done"} => ENABLED Step(p, Payloads, Replies)

C7_Witness ==
    \E p \in Procs :
        /\ IsError(p, 500)
        /\ seen[p].looked
        /\ seen[p].entry.exp.t = "str"

(***************************************************************************)
(* C8.  No retry: an invocation calls the token endpoint at most once; a   *)
(* failed call ends it with an error status and nothing stored.            *)
(***************************************************************************)
C8_NoRetry ==
    \A p \in Procs :
        /\ fetches[p] <= 1
        /\ (fetches[p] >= 1 /\ ~Issued(reply[p]))
           => /\ pc[p] = "done"
              /\ Status(p) \in {400, 500}
              /\ writes[p] = 0

C8_Witness ==
    \E p \in Procs :
        /\ pc[p] = "done"
        /\ fetches[p] = 1
        /\ reply[p].status_code = 401
        /\ Status(p) = 500

(***************************************************************************)
(* C9.  Configuration is immutable once loaded: with invocations one after *)
(* another, once oauth_apps holds a configuration it never changes, and    *)
(* init_context then raises nothing whatever mapping the invocation        *)
(* brings (other values, missing keys).                                    *)
(***************************************************************************)
C9_ConfigImmutableOnceLoaded ==
    [][/\ oauth_apps # << >> => oauth_apps' = oauth_apps
       /\ \A p \in Procs :
             (pc[p] = "init_context" /\ pc'[p] # "init_context" /\ oauth_apps # << >>)
             => pc'[p] = "loads"]_vars

C9_Witness ==
    \E p \in Procs :
        /\ pc[p] = "loads"
        /\ context[p] = ConfigNoUrl
        /\ "iam" \in DOMAIN oauth_apps
        /\ oauth_apps["iam"] = ConfigTwo

(***************************************************************************)
(* C10.  Lookup validity is exactly "entry exists and now < expiresAt":    *)
(* get_cached_token gives the stored token iff the key has an entry and    *)
(* the clock is strictly before its expiry; from now = expiresAt on it     *)
(* gives None, as for a key never inserted.                                *)
(***************************************************************************)
C10_LookupValidity ==
    /\ \A k \in Keys :
          LET r == get_cached_token(auth_cache, k, now)
          IN  /\ k \notin DOMAIN auth_cache => r = Ok(PyNone)
              /\ (k \in DOMAIN auth_cache /\ auth_cache[k].exp.t = "num")
                 => r = IF now < auth_cache[k].exp.n
                        THEN Ok(auth_cache[k].token)
                        ELSE get_cached_token(<< >>, k, now)
    /\ \A p \in Procs :
          seen[p].looked =>
             cached_token[p] = IF ValidEntry(seen[p].entry, seen[p].at)
                               THEN seen[p].entry.token
                               ELSE PyNone

C10_Witness ==
    \E p \in Procs :
        /\ pc[p] = "scope"
        /\ seen[p].looked
        /\ seen[p].entry.exp.t = "num"
        /\ seen[p].entry.exp.n = seen[p].at
        /\ cached_token[p] = PyNone

(***************************************************************************)
(* C11.  Insert uses the fallback window only when the expiry is absent:   *)
(* cache_token stores expiresAt = exp for every timestamp it is given,     *)
(* 0 and past ones included, and now + 300 exactly when exp is absent.     *)
(***************************************************************************)
\* the exp claim the access token carries: a number, or nothing readable
CarriedExp(token) ==
    IF token.t = "str" /\ token.s \in AccessTokens
       /\ VariantOf(token.s) # "opaque"
    THEN Get(ExpClaim(VariantOf(token.s)), PyNone)
    ELSE PyNone

\* C11: the insert stores the token's own expiry when it has a numeric one,
\* and the clock plus the fallback window when it has none
C11_FallbackOnlyWhenAbsent ==
    [][\A p \in Procs :
          (pc[p] = "cache" /\ pc'[p] = "done")
          => LET given == CarriedExp(new_token[p])
                 stored == auth_cache'[cache_key[p]].exp
             IN  /\ given.t = "num" => stored = given
                 /\ given.t = "none" => stored = PyNum(now + FallbackTTL)]_vars

(***************************************************************************)
(* C12.  An undecodable expiry is not fatal: when the exchange gives token *)
(* T and T does not parse as a JWT or has no exp claim, the invocation     *)
(* still responds 200 with "Bearer " + T and caches T with expiresAt =     *)
(* now + 300.                                                              *)
(***************************************************************************)
\* C12: storing a token without a readable exp returns 200 with it and caches
\* it for the fallback window
C12_UndecodableExpiryNotFatal ==
    [][\A p \in Procs :
          (/\ pc[p] = "cache" /\ pc'[p] # "cache"
           /\ new_token[p].t = "str"
           /\ VariantOf(new_token[p].s) \in {"opaque", "noexp"})
          => /\ pc'[p] = "done"
             /\ resp'[p].status_code = 200
             /\ resp'[p].response_data.token_response = "Bearer " \o new_token[p].s
             /\ cache_key[p] \in DOMAIN auth_cache'
             /\ auth_cache'[cache_key[p]] =
                   [token |-> new_token[p], exp |-> PyNum(now + FallbackTTL)]]_vars

C12_Witness ==
    \E p \in Procs :
        /\ pc[p] = "done"
        /\ Status(p) = 200
        /\ Issued(reply[p])
        /\ VariantOf(reply[p].access_token.s) = "opaque"
        /\ auth_cache[cache_key[p]].token = reply[p].access_token
        /\ auth_cache[cache_key[p]].exp.n = now + FallbackTTL

(***************************************************************************)
(* C13.  Credential extraction follows a fixed priority and validates only *)
(* the chosen value: extract_auth_header returns the first non-empty value *)
(* among token, data.Authorization, Authorization, and fails when that     *)
(* value does not start with "Basic ", even when a later field holds a     *)
(* well-formed credential.                                                 *)
(***************************************************************************)
\* C13: extraction yields the first non-empty value when it is a string that
\* starts with "Basic ", and otherwise ends the invocation with an error
C13_ExtractionPriority ==
    [][\A p \in Procs :
          (pc[p] = "extract" /\ pc'[p] # "extract" /\ body[p].top.t = "dict")
          => LET m == Matched(body[p])
             IN  IF Truthy(m) /\ m.t = "str" /\ StartsWith(m.s, "Basic ")
                 THEN /\ pc'[p] = "lookup"
                      /\ auth_header'[p] = m.s
                 ELSE /\ pc'[p] = "done"
                      /\ resp'[p].status_code # 200]_vars

(***************************************************************************)
(* C14.  Stale entries are never deleted, only replaced: the keys of the   *)
(* cache never become fewer; an invocation that finds an entry whose       *)
(* expiry has passed makes an exchange, and the entry then holds the new   *)
(* token if the exchange succeeded and is unchanged if it failed.          *)
(***************************************************************************)
StaleAtLookup(p) ==
    /\ seen[p].looked
    /\ seen[p].entry.token.t # "absent"
    /\ seen[p].entry.exp.t = "num"
    /\ seen[p].at >= seen[p].entry.exp.n

\* C14: no step removes a key, and an invocation that found a stale entry ends
\* with one exchange made and the entry replaced or, on failure, as it was
C14_StaleEntriesOnlyReplaced ==
    [][/\ DOMAIN auth_cache \subseteq DOMAIN auth_cache'
       /\ \A p \in Procs :
             (pc[p] # "done" /\ pc'[p] = "done" /\ StaleAtLookup(p))
             => /\ fetches'[p] = 1
                /\ IF Issued(reply'[p])
                   THEN auth_cache'[cache_key[p]].token = reply'[p].access_token
                   ELSE auth_cache'[cache_key[p]] = seen[p].entry]_vars

C14_Witness ==
    \E p \in Procs :
        /\ pc[p] = "done"
        /\ StaleAtLookup(p)
        /\ fetches[p] = 1
        /\ ~Issued(reply[p])
        /\ auth_cache[cache_key[p]] = seen[p].entry
        /\ Cardinality(DOMAIN auth_cache) = 2

(***************************************************************************)
(* C15.  No single-flight suppression: two concurrent invocations for one  *)
(* credential, with no valid entry for its key, can both look up before    *)
(* either inserts, and both then make an exchange.                         *)
(***************************************************************************)
\* C15: every invocation whose lookup missed makes an exchange of its own once
\* it is past the fetch, whatever the other invocations are doing
C15_NoSingleFlight ==
    \A p \in Procs :
        (MissAtLookup(p) /\ pc[p] \in {"cache", "done"}) => fetches[p] = 1

\* both looked up and both exchanged for the one key before either inserted
C15_Witness ==
    \E p, q \in Procs :
        /\ p # q
        /\ pc[p] = "cache" /\ pc[q] = "cache"
        /\ auth_header[p] = auth_header[q]
        /\ cache_key[p] = cache_key[q]
        /\ MissAtLookup(p) /\ MissAtLookup(q)
        /\ fetches[p] = 1 /\ fetches[q] = 1
        /\ writes[p] = 0 /\ writes[q] = 0
        /\ Issued(reply[p]) /\ Issued(reply[q])
        /\ cache_key[p] \notin DOMAIN auth_cache

(***************************************************************************)
(* C16.  Last writer wins on insert: under any interleaving the cache has  *)
(* at most one entry per key, and the entry is the (token, expiry) pair of *)
(* the insert that executed last, whichever exchange started first and     *)
(* whichever token expires later.                                          *)
(***************************************************************************)
\* the (token, expiry) pairs an insert by p at time t can put into the cache:
\* its own token, with that token's exp claim or the fallback window from t
InsertedPairs(p, t) ==
    {[token |-> new_token[p], exp |-> e] :
        e \in {CarriedExp(new_token[p]), PyNum(t + FallbackTTL)}}

\* C16: an insert leaves its own pair under its key, whatever was there, and
\* no other step changes an entry
C16_LastWriterWins ==
    [][/\ \A p \in Procs :
             (pc[p] = "cache" /\ pc'[p] = "done")
             => /\ cache_key[p] \in DOMAIN auth_cache'
                /\ auth_cache'[cache_key[p]] \in InsertedPairs(p, now)
       /\ (\A p \in Procs : ~(pc[p] = "cache" /\ pc'[p] = "done"))
             => auth_cache' = auth_cache]_vars

\* two inserts for one key are done, and the one that stayed expires earlier
C16_Witness ==
    \E p, q \in Procs :
        /\ p # q
        /\ pc[p] = "done" /\ pc[q] = "done"
        /\ cache_key[p] = cache_key[q]
        /\ writes[p] = 1 /\ writes[q] = 1
        /\ new_token[p] # new_token[q]
        /\ auth_cache[cache_key[p]].token = new_token[p]
        /\ CarriedExp(new_token[p]).t = "num" /\ CarriedExp(new_token[q]).t = "num"
        /\ CarriedExp(new_token[p]).n < CarriedExp(new_token[q]).n

(***************************************************************************)
(* C17.  Configuration initialization runs at most once per process:       *)
(* across any interleaving of invocations, several starting before any     *)
(* Configuration exists included, the Configuration is written at most     *)
(* once.                                                                   *)
(***************************************************************************)
\* C17: the store of init_context is executed only while no Configuration
\* exists, so a second write never happens
C17_ConfigWrittenAtMostOnce ==
    [][\A p \in Procs :
          (pc[p] = "init_store" /\ pc'[p] = "loads") => oauth_apps = << >>]_vars

(***************************************************************************)
(* C18.  Per-credential isolation: the token stored under get_cache_key(C) *)
(* came from an exchange made with credential C, and every 200 response to *)
(* an invocation carrying C holds a token obtained with C, under any       *)
(* interleaving.                                                           *)
(***************************************************************************)
\* C18: each entry holds a token the endpoint issued for the credential of its
\* key, and each 200 response holds one issued for the invocation's credential
C18_PerCredentialIsolation ==
    /\ \A c \in Credentials :
          get_cache_key(c) \in DOMAIN auth_cache
          => /\ auth_cache[get_cache_key(c)].token.t = "str"
             /\ auth_cache[get_cache_key(c)].token.s \in TokensFor(c)
    /\ \A p \in Procs :
          (pc[p] = "done" /\ Status(p) = 200)
          => \E tok \in TokensFor(auth_header[p]) :
                resp[p].response_data.token_response = "Bearer " \o tok

\* two invocations with different credentials ran side by side, and each was
\* answered with, and cached, its own token
C18_Witness ==
    \E p, q \in Procs :
        /\ p # q
        /\ pc[p] = "done" /\ pc[q] = "done"
        /\ Status(p) = 200 /\ Status(q) = 200
        /\ auth_header[p] = CredA /\ auth_header[q] = CredB
        /\ seen[p].at = seen[q].at
        /\ DOMAIN auth_cache = {get_cache_key(CredA), get_cache_key(CredB)}
        /\ auth_cache[get_cache_key(CredA)].token = new_token[p]
        /\ auth_cache[get_cache_key(CredB)].token = new_token[q]

(***************************************************************************)
(* C19.  Failed and cache-hit invocations do not touch the cache: an       *)
(* invocation that responds 400 or 500, or is served from the cache,       *)
(* leaves the whole cache unchanged; the only cache write is the insert    *)
(* after a successful exchange, and it changes only the entry of the       *)
(* invoking credential's own key.                                          *)
(***************************************************************************)
\* C19: a step that changes the cache is the insert of an invocation whose
\* exchange succeeded and changes its key only; an invocation that ends in
\* 400 or 500, or was served from the cache, has made no insert
C19_OnlyInsertWritesCache ==
    [][/\ auth_cache' # auth_cache
          => \E p \in Procs :
                /\ pc[p] = "cache" /\ pc'[p] = "done"
                /\ Issued(reply[p]) /\ fetches[p] = 1
                /\ resp'[p].status_code = 200
                /\ DOMAIN auth_cache' = DOMAIN auth_cache \cup {get_cache_key(auth_header[p])}
                /\ \A k \in DOMAIN auth_cache \ {get_cache_key(auth_header[p])} :
                      auth_cache'[k] = auth_cache[k]
       /\ \A p \in Procs :
             (pc'[p] = "done"
              /\ (resp'[p].status_code \in {400, 500} \/ cached_token'[p].t = "str"))
             => writes'[p] = 0]_vars

\* an invocation whose exchange failed ended in 500 beside one that inserted,
\* and the cache holds the insert alone
C19_Witness ==
    \E p, q \in Procs :
        /\ p # q
        /\ pc[p] = "done" /\ pc[q] = "done"
        /\ Status(p) = 500 /\ fetches[p] = 1 /\ writes[p] = 0
        /\ Status(q) = 200 /\ writes[q] = 1
        /\ cache_key[p] # cache_key[q]
        /\ DOMAIN auth_cache = {cache_key[q]}
        /\ auth_cache[cache_key[q]].token = new_token[q]

(***************************************************************************)
(* C20.  Cache contents never break a later lookup: every entry has a      *)
(* non-empty token and an expiry that is a number comparable with the      *)
(* clock, whatever exp claim the upstream token had, so no invocation ends *)
(* in an error because of what an earlier one stored.                      *)
(***************************************************************************)
\* C20: every entry holds a non-empty token and a numeric expiry, and no lookup
\* of an entry ends the invocation with an error
C20_EntriesWellFormed ==
    /\ \A k \in DOMAIN auth_cache :
          /\ Truthy(auth_cache[k].token)
          /\ auth_cache[k].exp.t = "num"
    /\ \A p \in Procs :
          (pc[p] = "done" /\ seen[p].looked /\ seen[p].entry.token.t # "absent"
           /\ fetches[p] = 0)
          => Status(p) = 200

=============================================================================
